---- MODULE Spec2Model ----
(***************************************************************************)
(* Model of localstack/services/events/provider_v2.py: the EventsProvider  *)
(* registry of event buses (EventBus objects held in the _event_buses      *)
(* dict), its CreateEventBus / DeleteEventBus handlers and the internal    *)
(* lookup helper.                                                          *)
(*                                                                         *)
(* Python objects have identity, so EventBus objects live in a heap that   *)
(* maps an object id to the object's fields; _event_buses maps a key       *)
(* string to an object id.  Strings are TLC strings and are composed with  *)
(* \o exactly as the f-strings of the source compose them.                 *)
(***************************************************************************)
EXTENDS Integers, Sequences, FiniteSets, TLC

VARIABLES _event_buses, heap, last, calls

vars == <<_event_buses, heap, last, calls>>

(***************************************************************************)
(* Bounds and input sets.                                                  *)
(***************************************************************************)
\* number of EventBus objects CreateEventBus may construct in one behaviour
MaxBuses == 2

\* number of concurrent callers of the concurrent specification
MaxThreads == 2

\* bus names: the reserved name, a plain name, and a name with a hyphen
Names == {"default", "bus", "bus-us"}

\* context.region values (an arbitrary string taken from the request)
Regions == {"us-east-1", "east-1"}

\* context.account_id values
Accounts == {"000000000000", "111111111111"}

\* names of the rules a caller may attach to a bus it looked up
RuleNames == {"rule"}

Threads == 1..MaxThreads

(***************************************************************************)
(* Pure helpers of EventsProvider.                                         *)
(***************************************************************************)
\* faulty variant of _get_event_bus_key: the key ignores the region
GetEventBusKey_NoRegion(name, region) == name

\* _get_event_bus_key: f"{name}-{region}"
GetEventBusKey(name, region) == name \o "-" \o region

\* faulty variant of _get_event_bus_arn: region and account id swapped
GetEventBusArn_Swapped(name, region, account_id) ==
    "arn:aws:events:" \o account_id \o ":" \o region \o ":event-bus/" \o name

\* _get_event_bus_arn: f"arn:aws:events:{region}:{account_id}:event-bus/{name}"
GetEventBusArn(name, region, account_id) ==
    "arn:aws:events:" \o region \o ":" \o account_id \o ":event-bus/" \o name

\* the positions of "/" in a string
SlashPositions(s) == {i \in 1..Len(s) : SubSeq(s, i, i) = "/"}

\* the largest element of a non-empty set of numbers
Max(S) == CHOOSE i \in S : \A j \in S : j <= i

\* s.split("/")[-1]: what follows the last "/", the whole string without one
LastSegment(s) ==
    IF SlashPositions(s) = {} THEN s
    ELSE SubSeq(s, Max(SlashPositions(s)) + 1, Len(s))

\* faulty variant of s.split("/")[-1]: the first segment is taken
FirstSegment(s) ==
    IF SlashPositions(s) = {} THEN s
    ELSE SubSeq(s, 1, (CHOOSE i \in SlashPositions(s) :
                           \A j \in SlashPositions(s) : i <= j) - 1)

\* faulty variant of _extract_event_bus_name
ExtractEventBusName_First(event_bus_name_or_arn) ==
    IF event_bus_name_or_arn = <<>> \/ event_bus_name_or_arn = <<"">>
    THEN "default"
    ELSE FirstSegment(event_bus_name_or_arn[1])

\* _extract_event_bus_name(event_bus_name_or_arn); the argument is <<>> for
\* None and <<s>> for the string s, and "not x" holds of None and of ""
ExtractEventBusName(event_bus_name_or_arn) ==
    IF event_bus_name_or_arn = <<>> \/ event_bus_name_or_arn = <<"">>
    THEN "default"
    ELSE LastSegment(event_bus_name_or_arn[1])

\* RuleDict(): an empty dict of rules
EmptyRuleDict == <<>>

\* faulty variant of EventBus.__init__: the two attributes are swapped
EventBus_Swapped(name, arn) == [name |-> arn, arn |-> name, _rules |-> EmptyRuleDict]

\* EventBus.__init__(name, arn)
EventBus(name, arn) == [name |-> name, arn |-> arn, _rules |-> EmptyRuleDict]

\* RuleState.ENABLED / RuleState.DISABLED
ENABLED_ == "ENABLED"
DISABLED_ == "DISABLED"

\* Python's None, for the optional string attributes
None == "None"

\* Rule.__init__(name) with the defaults state=ENABLED, description=None,
\* role_arn=None
Rule(name) ==
    [name |-> name, state |-> ENABLED_, description |-> None, role_arn |-> None]

\* Rule.__init__(name, state, description, role_arn) with every argument given
RuleWith(name, state, description, role_arn) ==
    [name |-> name, state |-> state, description |-> description,
     role_arn |-> role_arn]

\* faulty variant of Rule.enable(): the state is flipped
Enable_Toggle(rule) ==
    [rule EXCEPT !.state = IF rule.state = ENABLED_ THEN DISABLED_ ELSE ENABLED_]

\* Rule.enable(): self.state = RuleState.ENABLED
Enable(rule) == [rule EXCEPT !.state = ENABLED_]

\* Rule.disable(): self.state = RuleState.DISABLED
Disable(rule) == [rule EXCEPT !.state = DISABLED_]

\* faulty variant: an EventBus without rules is falsy (a __len__ over _rules)
Truthy_HasRules(event_bus) == event_bus._rules # <<>>

\* EventBus defines neither __bool__ nor __len__: every EventBus is truthy
Truthy(event_bus) == TRUE

(***************************************************************************)
(* dict operations on _event_buses.                                        *)
(***************************************************************************)
\* faulty variant of the store: an entry already present is kept (setdefault)
Store_KeepFirst(buses, key, id) ==
    [k \in (DOMAIN buses) \cup {key} |-> IF k \in DOMAIN buses THEN buses[k] ELSE id]

\* self._event_buses[key] = event_bus
Store(buses, key, id) ==
    [k \in (DOMAIN buses) \cup {key} |-> IF k = key THEN id ELSE buses[k]]

\* the dict left by self._event_buses.pop(key) when key is present
Remove(buses, key) == [k \in (DOMAIN buses) \ {key} |-> buses[k]]

\* faulty variant of EventBus.delete(): the rules are kept
Delete_KeepRules(h, id) == h

\* faulty variant of EventBus.delete(): the rule dict is shared by all buses
Delete_AllBuses(h, id) == [i \in DOMAIN h |-> [h[i] EXCEPT !._rules = EmptyRuleDict]]

\* EventBus.delete(): self._rules.clear()
Delete(h, id) == [h EXCEPT ![id]._rules = EmptyRuleDict]

\* the id of the next object the interpreter allocates
NewId(h) == Cardinality(DOMAIN h)

(***************************************************************************)
(* Exceptions: the class that is raised and its positional arguments.      *)
(***************************************************************************)
NoException == [type |-> "None", args |-> <<>>]

\* raise InternalException("ValidationException", "Cannot delete event bus default.")
DeleteDefaultException ==
    [type |-> "InternalException",
     args |-> <<"ValidationException", "Cannot delete event bus default.">>]

\* dict.pop(key) without a default on a missing key
KeyError(key) == [type |-> "KeyError", args |-> <<key>>]

\* ResourceNotFoundException(f"EventBus {name} for region {region} does not exist")
ResourceNotFoundException(name, region) ==
    [type |-> "ResourceNotFoundException",
     args |-> <<"EventBus " \o name \o " for region " \o region \o " does not exist">>]

(***************************************************************************)
(* The failure kinds of the error taxonomy, by exception class:            *)
(* ValidationException is the class declared for validation failures,      *)
(* ResourceNotFoundException the one for not-found failures; any other     *)
(* class is a generic internal failure.                                    *)
(***************************************************************************)
FailureKind(exc) ==
    CASE exc.type = "None" -> "None"
      [] exc.type = "ValidationException" -> "ValidationFailure"
      [] exc.type = "ResourceNotFoundException" -> "NotFoundFailure"
      [] OTHER -> "InternalFailure"

(***************************************************************************)
(* State after EventsProvider.__init__.                                    *)
(***************************************************************************)
\* faulty variant of _add_default_event_bus: keyed like every other bus
AddDefaultEventBus_Keyed(buses, id) ==
    Store(buses, GetEventBusKey("default", "us-east-1"), id)

\* _add_default_event_bus: self._event_buses["default"] = EventBus(name, arn)
AddDefaultEventBus(buses, id) == Store(buses, "default", id)

\* the EventBus object _add_default_event_bus constructs
DefaultEventBus ==
    EventBus("default", GetEventBusArn("default", "us-east-1", "000000000000"))

\* a caller that is not inside a handler
IdleCall ==
    [pc |-> "idle", op |-> "None", name |-> "", region |-> "", account_id |-> "",
     event_bus_arn |-> "", event_bus |-> <<>>, raised |-> NoException]

\* the record of the last completed call: its arguments, the handler's local
\* event_bus (the object it constructed or popped) and its outcome
NoCall ==
    [op |-> "None", name |-> "", region |-> "", account_id |-> "", rule |-> "",
     arg |-> <<>>, event_bus |-> <<>>, raised |-> NoException, response |-> "",
     returned |-> <<>>]

Init ==
    /\ heap = (0 :> DefaultEventBus)
    /\ _event_buses = AddDefaultEventBus(<<>>, 0)
    /\ last = NoCall
    /\ calls = [t \in Threads |-> IdleCall]

(***************************************************************************)
(* _get_event_bus as a function of the dict: what it raises or returns.    *)
(***************************************************************************)
\* _get_event_bus(name, region)
GetEventBusResult(buses, name, region) ==
    LET event_bus_key == GetEventBusKey(name, region)
    IN  IF event_bus_key \notin DOMAIN buses
        THEN [raised |-> ResourceNotFoundException(name, region), returned |-> <<>>]
        ELSE [raised |-> NoException, returned |-> <<buses[event_bus_key]>>]

(***************************************************************************)
(* Handlers, each as one atomic call of a single caller.                   *)
(***************************************************************************)
\* faulty variant of create_event_bus: an existing bus is kept
CreateEventBus_KeepExisting(name, region, account_id) ==
    LET event_bus_arn == GetEventBusArn(name, region, account_id)
        id == NewId(heap)
        event_bus_key == GetEventBusKey(name, region)
    IN  /\ id <= MaxBuses
        /\ heap' = (heap @@ (id :> EventBus(name, event_bus_arn)))
        /\ _event_buses' = IF event_bus_key \in DOMAIN _event_buses
                           THEN _event_buses
                           ELSE Store(_event_buses, event_bus_key, id)
        /\ last' = [NoCall EXCEPT !.op = "CreateEventBus", !.name = name,
                                  !.region = region, !.account_id = account_id,
                                  !.event_bus = <<id>>, !.response = event_bus_arn]
        /\ UNCHANGED calls

\* create_event_bus(context, name)
CreateEventBus(name, region, account_id) ==
    LET event_bus_arn == GetEventBusArn(name, region, account_id)
        id == NewId(heap)
        event_bus_key == GetEventBusKey(name, region)
    IN  /\ id <= MaxBuses
        /\ heap' = (heap @@ (id :> EventBus(name, event_bus_arn)))
        /\ _event_buses' = Store(_event_buses, event_bus_key, id)
        /\ last' = [NoCall EXCEPT !.op = "CreateEventBus", !.name = name,
                                  !.region = region, !.account_id = account_id,
                                  !.event_bus = <<id>>, !.response = event_bus_arn]
        /\ UNCHANGED calls

\* delete_event_bus(context, name)
DeleteEventBus(name, region) ==
    LET event_bus_key == GetEventBusKey(name, region)
        call == [NoCall EXCEPT !.op = "DeleteEventBus", !.name = name, !.region = region]
    IN  /\ UNCHANGED calls
        /\ IF name = "default"
           THEN /\ last' = [call EXCEPT !.raised = DeleteDefaultException]
                /\ UNCHANGED <<_event_buses, heap>>
           ELSE IF event_bus_key \notin DOMAIN _event_buses
           THEN \* pop(key) has no default: KeyError leaves the handler
                /\ last' = [call EXCEPT !.raised = KeyError(event_bus_key)]
                /\ UNCHANGED <<_event_buses, heap>>
           ELSE LET event_bus == _event_buses[event_bus_key]
                IN  /\ _event_buses' = Remove(_event_buses, event_bus_key)
                    /\ IF Truthy(heap[event_bus])
                       THEN /\ heap' = Delete(heap, event_bus)
                            /\ last' = [call EXCEPT !.event_bus = <<event_bus>>]
                       ELSE /\ heap' = heap
                            /\ last' = [call EXCEPT !.event_bus = <<event_bus>>,
                                             !.raised =
                                             ResourceNotFoundException(name, region)]

\* a call of _get_event_bus(name, region)
GetEventBus(name, region) ==
    LET result == GetEventBusResult(_event_buses, name, region)
    IN  /\ UNCHANGED <<_event_buses, heap, calls>>
        /\ last' = [NoCall EXCEPT !.op = "GetEventBus", !.name = name,
                                  !.region = region, !.raised = result.raised,
                                  !.returned = result.returned]

\* a caller of _get_event_bus adds a rule to the bus it was handed:
\* bus._rules[rule] = Rule(rule)
PutRule(name, region, rule) ==
    LET result == GetEventBusResult(_event_buses, name, region)
    IN  /\ UNCHANGED <<_event_buses, calls>>
        /\ result.raised = NoException
        /\ LET id == result.returned[1]
               rules == heap[id]._rules
           IN  heap' = [heap EXCEPT ![id]._rules =
                            [r \in (DOMAIN rules) \cup {rule} |->
                                 IF r = rule THEN Rule(rule) ELSE rules[r]]]
        /\ last' = [NoCall EXCEPT !.op = "PutRule", !.name = name,
                                  !.region = region, !.rule = rule,
                                  !.returned = result.returned]

Create == \E n \in Names, r \in Regions, a \in Accounts : CreateEventBus(n, r, a)
DeleteBus == \E n \in Names, r \in Regions : DeleteEventBus(n, r)
Lookup == \E n \in Names, r \in Regions : GetEventBus(n, r)
Put == \E n \in Names, r \in Regions, x \in RuleNames : PutRule(n, r, x)

Next == Create \/ DeleteBus \/ Lookup \/ Put

Spec == Init /\ [][Next]_vars

(***************************************************************************)
(* Concurrent callers.  Each thread runs one handler, one step at a time;  *)
(* a step is one access to the shared dict or to a shared object (each is  *)
(* atomic under the interpreter lock) together with the local computation  *)
(* that precedes it.  Before the first thread starts, a single caller may  *)
(* populate the registry.                                                  *)
(***************************************************************************)
AllIdle == \A t \in Threads : calls[t].pc = "idle"

\* threads are interchangeable: they enter their handlers in the order of
\* their numbers, which leaves every interleaving of the steps possible
MayStart(t) == \A u \in Threads : u < t => calls[u].pc # "idle"

\* create_event_bus, up to the construction of the EventBus
CreateNew(t, name, region, account_id) ==
    LET event_bus_arn == GetEventBusArn(name, region, account_id)
        id == NewId(heap)
    IN  /\ calls[t].pc = "idle"
        /\ MayStart(t)
        /\ id <= MaxBuses
        /\ heap' = (heap @@ (id :> EventBus(name, event_bus_arn)))
        /\ calls' = [calls EXCEPT ![t] =
                        [IdleCall EXCEPT !.pc = "store", !.op = "CreateEventBus",
                                         !.name = name, !.region = region,
                                         !.account_id = account_id,
                                         !.event_bus_arn = event_bus_arn,
                                         !.event_bus = <<id>>]]
        /\ UNCHANGED <<_event_buses, last>>

\* create_event_bus: self._event_buses[event_bus_key] = event_bus, and return
CreateStore(t) ==
    LET event_bus_key == GetEventBusKey(calls[t].name, calls[t].region)
    IN  /\ calls[t].pc = "store"
        /\ _event_buses' = Store(_event_buses, event_bus_key, calls[t].event_bus[1])
        /\ calls' = [calls EXCEPT ![t].pc = "done"]
        /\ UNCHANGED <<heap, last>>

\* delete_event_bus: the check of the name
DeleteCheck(t, name, region) ==
    /\ calls[t].pc = "idle"
    /\ MayStart(t)
    /\ calls' = [calls EXCEPT ![t] =
                    IF name = "default"
                    THEN [IdleCall EXCEPT !.pc = "done", !.op = "DeleteEventBus",
                                          !.name = name, !.region = region,
                                          !.raised = DeleteDefaultException]
                    ELSE [IdleCall EXCEPT !.pc = "pop", !.op = "DeleteEventBus",
                                          !.name = name, !.region = region]]
    /\ UNCHANGED <<_event_buses, heap, last>>

\* faulty variant of the pop: the bus is read but stays in the dict
DeletePop_Get(t) ==
    LET event_bus_key == GetEventBusKey(calls[t].name, calls[t].region)
    IN  /\ calls[t].pc = "pop"
        /\ UNCHANGED <<_event_buses, heap, last>>
        /\ IF event_bus_key \notin DOMAIN _event_buses
           THEN calls' = [calls EXCEPT ![t].pc = "done",
                                       ![t].raised = KeyError(event_bus_key)]
           ELSE calls' = [calls EXCEPT ![t].pc = "delete",
                                       ![t].event_bus = <<_event_buses[event_bus_key]>>]

\* delete_event_bus: event_bus := self._event_buses.pop(event_bus_key)
DeletePop(t) ==
    LET event_bus_key == GetEventBusKey(calls[t].name, calls[t].region)
    IN  /\ calls[t].pc = "pop"
        /\ UNCHANGED <<heap, last>>
        /\ IF event_bus_key \notin DOMAIN _event_buses
           THEN /\ calls' = [calls EXCEPT ![t].pc = "done",
                                          ![t].raised = KeyError(event_bus_key)]
                /\ UNCHANGED _event_buses
           ELSE LET event_bus == _event_buses[event_bus_key]
                IN  /\ _event_buses' = Remove(_event_buses, event_bus_key)
                    /\ IF Truthy(heap[event_bus])
                       THEN calls' = [calls EXCEPT ![t].pc = "delete",
                                                   ![t].event_bus = <<event_bus>>]
                       ELSE calls' = [calls EXCEPT ![t].pc = "done",
                                                   ![t].event_bus = <<event_bus>>,
                                                   ![t].raised =
                                                       ResourceNotFoundException(
                                                           calls[t].name, calls[t].region)]

\* delete_event_bus: event_bus.delete(), and return
DeleteBusRules(t) ==
    /\ calls[t].pc = "delete"
    /\ heap' = Delete(heap, calls[t].event_bus[1])
    /\ calls' = [calls EXCEPT ![t].pc = "done"]
    /\ UNCHANGED <<_event_buses, last>>

\* the single caller creates at most one bus before the concurrent callers start
SetupCreate == AllIdle /\ DOMAIN heap = {0} /\ Create
SetupPut == AllIdle /\ Put
ThreadCreateNew ==
    \E t \in Threads, n \in Names, r \in Regions, a \in Accounts : CreateNew(t, n, r, a)
ThreadCreateStore == \E t \in Threads : CreateStore(t)
ThreadDeleteCheck == \E t \in Threads, n \in Names, r \in Regions : DeleteCheck(t, n, r)
ThreadDeletePop == \E t \in Threads : DeletePop(t)
ThreadDeleteBusRules == \E t \in Threads : DeleteBusRules(t)

NextConcurrent ==
    \/ SetupCreate
    \/ SetupPut
    \/ ThreadCreateNew
    \/ ThreadCreateStore
    \/ ThreadDeleteCheck
    \/ ThreadDeletePop
    \/ ThreadDeleteBusRules

SpecConcurrent == Init /\ [][NextConcurrent]_vars

(***************************************************************************)
(* The objects behind the registry: a caller that was handed a bus by      *)
(* _get_event_bus puts rules on it, enables and disables them and calls    *)
(* the bus's delete(); the name extraction helper is applied to names and  *)
(* ARNs.                                                                   *)
(***************************************************************************)
\* descriptions and role ARNs given to Rule.__init__
Descriptions == {None, "a rule"}
RoleArns == {None, "arn:aws:iam::000000000000:role/r"}

\* arguments of _extract_event_bus_name: None, "", bare names, a name with a
\* "/", and ARNs
ExtractArgs ==
    {<<>>, <<"">>, <<"my-bus">>, <<"a/b">>,
     <<"arn:aws:events:us-east-1:123:event-bus/my-bus">>}
        \cup {<<n>> : n \in Names}
        \cup {<<GetEventBusArn(n, r, a)>> : n \in Names, r \in Regions, a \in Accounts}

\* the rule dict with rule stored under key
StoreRule(rules, key, rule) ==
    [r \in (DOMAIN rules) \cup {key} |-> IF r = key THEN rule ELSE rules[r]]

\* bus._rules[rule] = Rule(rule, state, description, role_arn) on the bus
\* _get_event_bus returned
PutRuleWith(name, region, rule, state, description, role_arn) ==
    LET result == GetEventBusResult(_event_buses, name, region)
    IN  /\ UNCHANGED <<_event_buses, calls>>
        /\ result.raised = NoException
        /\ LET id == result.returned[1]
           IN  heap' = [heap EXCEPT ![id]._rules =
                            StoreRule(heap[id]._rules, rule,
                                      RuleWith(rule, state, description, role_arn))]
        /\ last' = [NoCall EXCEPT !.op = "PutRuleWith", !.name = name,
                                  !.region = region, !.rule = rule,
                                  !.returned = result.returned]

\* bus._rules[rule].enable() on the bus _get_event_bus returned
EnableRule(name, region, rule) ==
    LET result == GetEventBusResult(_event_buses, name, region)
    IN  /\ UNCHANGED <<_event_buses, calls>>
        /\ result.raised = NoException
        /\ rule \in DOMAIN heap[result.returned[1]]._rules
        /\ LET id == result.returned[1]
           IN  heap' = [heap EXCEPT ![id]._rules[rule] = Enable(heap[id]._rules[rule])]
        /\ last' = [NoCall EXCEPT !.op = "Rule.enable", !.name = name,
                                  !.region = region, !.rule = rule,
                                  !.returned = result.returned]

\* bus._rules[rule].disable() on the bus _get_event_bus returned
DisableRule(name, region, rule) ==
    LET result == GetEventBusResult(_event_buses, name, region)
    IN  /\ UNCHANGED <<_event_buses, calls>>
        /\ result.raised = NoException
        /\ rule \in DOMAIN heap[result.returned[1]]._rules
        /\ LET id == result.returned[1]
           IN  heap' = [heap EXCEPT ![id]._rules[rule] = Disable(heap[id]._rules[rule])]
        /\ last' = [NoCall EXCEPT !.op = "Rule.disable", !.name = name,
                                  !.region = region, !.rule = rule,
                                  !.returned = result.returned]

\* bus.delete() on the bus _get_event_bus returned; the bus stays in the dict
EventBusDelete(name, region) ==
    LET result == GetEventBusResult(_event_buses, name, region)
    IN  /\ UNCHANGED <<_event_buses, calls>>
        /\ result.raised = NoException
        /\ heap' = Delete(heap, result.returned[1])
        /\ last' = [NoCall EXCEPT !.op = "EventBus.delete", !.name = name,
                                  !.region = region,
                                  !.returned = result.returned]

\* a call of _extract_event_bus_name(event_bus_name_or_arn)
ExtractName(event_bus_name_or_arn) ==
    /\ UNCHANGED <<_event_buses, heap, calls>>
    /\ last' = [NoCall EXCEPT !.op = "ExtractEventBusName",
                              !.arg = event_bus_name_or_arn,
                              !.response = ExtractEventBusName(event_bus_name_or_arn)]

PutWith ==
    \E n \in Names, r \in Regions, x \in RuleNames, st \in {ENABLED_, DISABLED_},
       d \in Descriptions, ra \in RoleArns : PutRuleWith(n, r, x, st, d, ra)
EnableRules == \E n \in Names, r \in Regions, x \in RuleNames : EnableRule(n, r, x)
DisableRules == \E n \in Names, r \in Regions, x \in RuleNames : DisableRule(n, r, x)
DeleteRules == \E n \in Names, r \in Regions : EventBusDelete(n, r)
Extract == \E x \in ExtractArgs : ExtractName(x)

NextObjects ==
    \/ SetupCreate
    \/ Put
    \/ PutWith
    \/ EnableRules
    \/ DisableRules
    \/ DeleteRules
    \/ Extract

SpecObjects == Init /\ [][NextObjects]_vars

(***************************************************************************)
(* The single caller again, with the bus names around the reserved name:   *)
(* "default" itself and a name that starts with it.                        *)
(***************************************************************************)
NamesDefault == {"default", "default-us"}

CreateDefault ==
    \E n \in NamesDefault, r \in Regions, a \in Accounts : CreateEventBus(n, r, a)
DeleteDefault == \E n \in NamesDefault, r \in Regions : DeleteEventBus(n, r)
LookupDefault == \E n \in NamesDefault, r \in Regions : GetEventBus(n, r)

NextDefault == CreateDefault \/ DeleteDefault \/ LookupDefault

SpecDefault == Init /\ [][NextDefault]_vars

(***************************************************************************)
(* Properties of the single-caller specification.                          *)
(***************************************************************************)
\* the ARN template of the external contract, written out
ArnOf(name, region, account_id) ==
    "arn:aws:events:" \o region \o ":" \o account_id \o ":event-bus/" \o name

\* the step is a call that completed as CreateEventBus / DeleteEventBus
IsCreateStep == last'.op = "CreateEventBus" /\ vars' # vars
IsDeleteStep == last'.op = "DeleteEventBus" /\ vars' # vars

\* C1: DeleteEventBus("default", R) fails with a ValidationFailure in every
\* registry state and for every region R, never with another failure kind.
C1_DeleteDefaultIsValidationFailure ==
    (last.op = "DeleteEventBus" /\ last.name = "default")
        => FailureKind(last.raised) = "ValidationFailure"

\* C2: DeleteEventBus(N, R) with N other than "default" and no bus at the key
\* of (N, R) fails with a NotFoundFailure that names the bus and the region.
C2_DeleteAbsentIsNotFound ==
    [][(IsDeleteStep /\ last'.name # "default"
          /\ GetEventBusKey(last'.name, last'.region) \notin DOMAIN _event_buses)
        => /\ FailureKind(last'.raised) = "NotFoundFailure"
           /\ last'.raised.args =
                <<"EventBus " \o last'.name \o " for region " \o last'.region
                    \o " does not exist">>]_vars

\* C3: right after construction the bus map holds exactly one entry, the bus
\* named "default" with the ARN of account 000000000000 in us-east-1 and an
\* empty rule map.
C3_InitialRegistry ==
    last.op = "None"
        => /\ DOMAIN _event_buses = {"default"}
           /\ heap[_event_buses["default"]] =
                [name |-> "default",
                 arn |-> "arn:aws:events:us-east-1:000000000000:event-bus/default",
                 _rules |-> <<>>]

C3_Witness ==
    /\ last.op = "None"
    /\ Cardinality(DOMAIN _event_buses) = 1
    /\ DOMAIN heap = {0}

\* C4: the pre-seeded default bus is never removed and never overwritten: the
\* entry "default" always holds the object built at construction, with its
\* name and ARN, whatever was created or deleted since.
C4_DefaultBusPinned ==
    /\ "default" \in DOMAIN _event_buses
    /\ _event_buses["default"] = 0
    /\ heap[0].name = "default"
    /\ heap[0].arn = "arn:aws:events:us-east-1:000000000000:event-bus/default"

C4_Witness ==
    /\ last.op = "DeleteEventBus"
    /\ last.name = "default"
    /\ \E k \in DOMAIN _event_buses : k # "default" /\ heap[_event_buses[k]].name = "default"

\* C5: after CreateEventBus(N, R, A) with N other than "default", the lookup
\* of (N, R) succeeds and returns a bus named N whose ARN is
\* arn:aws:events:{R}:{A}:event-bus/{N}, the ARN the create call returned.
C5_CreateThenLookup ==
    (last.op = "CreateEventBus" /\ last.name # "default")
        => LET result == GetEventBusResult(_event_buses, last.name, last.region)
           IN  /\ result.raised = NoException
               /\ heap[result.returned[1]].name = last.name
               /\ heap[result.returned[1]].arn =
                      ArnOf(last.name, last.region, last.account_id)
               /\ heap[result.returned[1]].arn = last.response

C5_Witness ==
    /\ last.op = "CreateEventBus"
    /\ last.name = "bus-us"
    /\ last.account_id = "111111111111"
    /\ last.response = "arn:aws:events:east-1:111111111111:event-bus/bus-us"

C7_RegionIsolation ==
    [][IsCreateStep
        => \A r2 \in Regions \ {last'.region} :
              GetEventBusResult(_event_buses', last'.name, r2)
                  = GetEventBusResult(_event_buses, last'.name, r2)]_vars

C7_Witness ==
    /\ last.op = "CreateEventBus"
    /\ \E r2 \in Regions \ {last.region} :
          FailureKind(GetEventBusResult(_event_buses, last.name, r2).raised)
              = "NotFoundFailure"

\* C8: CreateEventBus never fails; when a bus is already present at the key it
\* is replaced by the newly constructed bus, whose rule map is empty, and no
\* entry of the bus map refers to the previous bus any more.
C8_CreateOverwrites ==
    [][IsCreateStep
        => LET key == GetEventBusKey(last'.name, last'.region)
           IN  /\ last'.raised = NoException
               /\ key \in DOMAIN _event_buses'
               /\ <<_event_buses'[key]>> = last'.event_bus
               /\ _event_buses'[key] \notin DOMAIN heap
               /\ heap'[_event_buses'[key]]._rules = <<>>
               /\ key \in DOMAIN _event_buses
                    => \A k \in DOMAIN _event_buses' :
                          _event_buses'[k] # _event_buses[key]]_vars

C8_Witness ==
    /\ last.op = "CreateEventBus"
    /\ \E id \in DOMAIN heap :
          /\ heap[id]._rules # <<>>
          /\ heap[id].name = last.name
          /\ \A k \in DOMAIN _event_buses : _event_buses[k] # id

(***************************************************************************)
(* Properties of the concurrent specification.                             *)
(***************************************************************************)
\* the threads that ran CreateEventBus / DeleteEventBus to completion
DoneCreates == {t \in Threads : calls[t].op = "CreateEventBus" /\ calls[t].pc = "done"}
DoneDeletes == {t \in Threads : calls[t].op = "DeleteEventBus" /\ calls[t].pc = "done"}

\* the (name, region) pair of a thread's call
PairOf(t) == <<calls[t].name, calls[t].region>>

\* every thread that started ran CreateEventBus and has returned, and the
\* calls were for pairwise distinct (name, region) pairs
OnlyDistinctCreatesRan ==
    /\ \A t \in Threads : calls[t].pc = "idle" \/ t \in DoneCreates
    /\ Cardinality(DoneCreates) >= 2
    /\ \A t1, t2 \in DoneCreates : t1 # t2 => PairOf(t1) # PairOf(t2)

\* the lookup of thread t's pair returns the bus thread t built, with its ARN
CreateIsLookupable(t) ==
    LET result == GetEventBusResult(_event_buses, calls[t].name, calls[t].region)
    IN  /\ calls[t].raised = NoException
        /\ result.raised = NoException
        /\ result.returned = calls[t].event_bus
        /\ heap[result.returned[1]].arn =
               ArnOf(calls[t].name, calls[t].region, calls[t].account_id)

\* C9: concurrent CreateEventBus calls for pairwise distinct (name, region)
\* pairs all succeed and, once all have returned, the lookup of each pair
\* returns the bus of that call with that call's ARN; no create is lost.
C9_ConcurrentCreates ==
    OnlyDistinctCreatesRan => \A t \in DoneCreates : CreateIsLookupable(t)

\* C9 for calls whose composite keys are pairwise distinct as well: under every
\* interleaving no create is lost.
C9_ConcurrentCreatesDistinctKeys ==
    (/\ OnlyDistinctCreatesRan
     /\ \A t1, t2 \in DoneCreates :
           t1 # t2 => GetEventBusKey(calls[t1].name, calls[t1].region)
                          # GetEventBusKey(calls[t2].name, calls[t2].region))
        => \A t \in DoneCreates : CreateIsLookupable(t)

\* C10: when a DeleteEventBus(N, R) and a CreateEventBus(N, R, A) raced and both
\* have returned, the key of (N, R) is absent or holds the bus that create
\* built, with its ARN, which is not the bus the delete cleared; and no bus is
\* in the map once the delete that popped it has returned.
C10_DeleteCreateRace ==
    /\ \A c \in DoneCreates, d \in DoneDeletes :
          (/\ PairOf(c) = PairOf(d)
           /\ \A t \in Threads \ {c, d} : calls[t].pc = "idle")
              => LET key == GetEventBusKey(calls[c].name, calls[c].region)
                 IN  \/ key \notin DOMAIN _event_buses
                     \/ /\ <<_event_buses[key]>> = calls[c].event_bus
                        /\ heap[_event_buses[key]].arn =
                               ArnOf(calls[c].name, calls[c].region, calls[c].account_id)
                        /\ calls[d].event_bus # calls[c].event_bus
    /\ \A d \in DoneDeletes :
          \A k \in DOMAIN _event_buses : <<_event_buses[k]>> # calls[d].event_bus

\* the delete popped the bus that was there before and the create's bus stays
C10_Witness ==
    \E c \in DoneCreates, d \in DoneDeletes :
        /\ PairOf(c) = PairOf(d)
        /\ calls[d].event_bus # <<>>
        /\ calls[d].raised = NoException
        /\ GetEventBusKey(calls[c].name, calls[c].region) \in DOMAIN _event_buses

(***************************************************************************)
(* Further properties of the single-caller specification.                  *)
(***************************************************************************)
\* C11: every bus of the registry has the ARN
\* arn:aws:events:{region}:{account_id}:event-bus/{name} of its own name and of
\* the region and account of the call that created it (us-east-1 and
\* 000000000000 for the pre-seeded default), and no operation changes the name
\* or the ARN of an existing bus object.
C11_ArnInvariant ==
    /\ heap[0].name = "default"
    /\ heap[0].arn = ArnOf("default", "us-east-1", "000000000000")
    /\ [][/\ \A id \in DOMAIN heap :
                /\ id \in DOMAIN heap'
                /\ heap'[id].name = heap[id].name
                /\ heap'[id].arn = heap[id].arn
          /\ IsCreateStep
               => LET created == _event_buses'[GetEventBusKey(last'.name, last'.region)]
                  IN  /\ created \notin DOMAIN heap
                      /\ heap'[created].name = last'.name
                      /\ heap'[created].arn =
                             ArnOf(last'.name, last'.region, last'.account_id)]_vars

\* a created bus is still in the registry after a rule was put on it and
\* another bus was deleted
C11_Witness ==
    /\ last.op = "DeleteEventBus"
    /\ last.raised = NoException
    /\ \E k \in DOMAIN _event_buses :
          /\ heap[_event_buses[k]]._rules # <<>>
          /\ heap[_event_buses[k]].arn = "arn:aws:events:east-1:111111111111:event-bus/bus"

\* the key the last call computed, and the entries of the map besides it that
\* are the same before and after the step
LastKey == GetEventBusKey(last'.name, last'.region)
OtherEntriesUnchanged ==
    \A k \in ((DOMAIN _event_buses) \cup (DOMAIN _event_buses')) \ {LastKey} :
        /\ k \in DOMAIN _event_buses
        /\ k \in DOMAIN _event_buses'
        /\ _event_buses'[k] = _event_buses[k]

\* C14: CreateEventBus(N, R, A) and a successful DeleteEventBus(N, R) change
\* only the entry at the key of (N, R): every other entry, and the name, ARN
\* and rule map of every other bus, stay as they were; LookupEventBus changes
\* nothing.
C14_Frame ==
    [][/\ IsCreateStep
            => /\ OtherEntriesUnchanged
               /\ \A id \in DOMAIN heap : heap'[id] = heap[id]
       /\ (IsDeleteStep /\ last'.raised = NoException)
            => /\ OtherEntriesUnchanged
               /\ DOMAIN heap' = DOMAIN heap
               /\ \A id \in DOMAIN heap :
                     id # _event_buses[LastKey] => heap'[id] = heap[id]
       /\ (last'.op = "GetEventBus" /\ vars' # vars)
            => /\ _event_buses' = _event_buses
               /\ heap' = heap]_vars

\* a bus was deleted while another created bus with a rule is in the registry
C14_Witness ==
    /\ last.op = "DeleteEventBus"
    /\ last.raised = NoException
    /\ \E k \in DOMAIN _event_buses :
          /\ k # "default"
          /\ heap[_event_buses[k]]._rules # <<>>

\* C15: a DeleteEventBus or LookupEventBus that fails leaves the bus map and
\* the rule map of every bus exactly as they were.
C15_FailureChangesNothing ==
    [][(/\ last'.op \in {"DeleteEventBus", "GetEventBus"}
        /\ last'.raised # NoException
        /\ vars' # vars)
        => /\ _event_buses' = _event_buses
           /\ heap' = heap]_vars

\* a delete failed on a registry that holds a created bus
C15_Witness ==
    /\ last.op = "DeleteEventBus"
    /\ last.raised # NoException
    /\ last.name # "default"
    /\ \E k \in DOMAIN _event_buses : k # "default"

\* the bus at the key of the last call was created for the call's name and
\* region by an account other than a
CreatedByOtherAccount(a) ==
    /\ LastKey \in DOMAIN _event_buses
    /\ \E a1 \in Accounts \ {a} :
          heap[_event_buses[LastKey]].arn = ArnOf(last'.name, last'.region, a1)

\* a second CreateEventBus(N, R, A2) on the bus CreateEventBus(N, R, A1) made:
\* no entry is added, the lookup of (N, R) returns the bus with the ARN of A2
\* and no entry refers to the bus of A1
SecondCreateReplaces ==
    (IsCreateStep /\ CreatedByOtherAccount(last'.account_id))
        => LET result == GetEventBusResult(_event_buses', last'.name, last'.region)
           IN  /\ Cardinality(DOMAIN _event_buses') = Cardinality(DOMAIN _event_buses)
               /\ result.raised = NoException
               /\ heap'[result.returned[1]].arn =
                      ArnOf(last'.name, last'.region, last'.account_id)
               /\ \A k \in DOMAIN _event_buses' :
                     _event_buses'[k] # _event_buses[LastKey]

\* the bus at the key of the last call was created for the call's name and region
CreatedForLastPair ==
    /\ LastKey \in DOMAIN _event_buses
    /\ \E a \in Accounts :
          heap[_event_buses[LastKey]].arn = ArnOf(last'.name, last'.region, a)

\* C16 as stated: for any name N, a second create for (N, R) by another account
\* replaces the bus of the first, and DeleteEventBus(N, R) removes the bus.
C16_AccountNotInKey_AnyName ==
    [][/\ SecondCreateReplaces
       /\ (IsDeleteStep /\ CreatedForLastPair)
            => /\ last'.raised = NoException
               /\ LastKey \notin DOMAIN _event_buses']_vars

\* C16, amended: a second create for (N, R) by another account replaces the bus
\* of the first for any name N; DeleteEventBus(N, R) removes the bus for any
\* name N other than "default".
C16_AccountNotInKey ==
    [][/\ SecondCreateReplaces
       /\ (IsDeleteStep /\ CreatedForLastPair /\ last'.name # "default")
            => /\ last'.raised = NoException
               /\ LastKey \notin DOMAIN _event_buses']_vars

\* the bus of (N, R) was created twice, by two accounts; the first is unreachable
C16_Witness ==
    /\ last.op = "CreateEventBus"
    /\ \E id \in DOMAIN heap, a1 \in Accounts \ {last.account_id} :
          /\ heap[id].arn = ArnOf(last.name, last.region, a1)
          /\ \A k \in DOMAIN _event_buses : _event_buses[k] # id

\* C18: the key is injective on (name, region) pairs, so creating or deleting
\* the bus of (N1, R1) never overwrites, removes or makes visible a bus under
\* another pair (N2, R2): the other pair has another key and its lookup gives
\* what it gave before.
C18_KeyInjective ==
    [][(IsCreateStep \/ (IsDeleteStep /\ last'.raised = NoException))
        => \A n2 \in Names, r2 \in Regions :
              <<n2, r2>> # <<last'.name, last'.region>>
                 => /\ GetEventBusKey(n2, r2) # LastKey
                    /\ GetEventBusResult(_event_buses', n2, r2)
                           = GetEventBusResult(_event_buses, n2, r2)]_vars

\* C19: every entry of the bus map is stored under the key of the bus's own
\* name and of the region of its ARN, so the lookup of that name and region
\* returns the bus; the lookup of ("default", "us-east-1") returns the
\* pre-seeded default bus from construction onwards.
C19_Addressable ==
    /\ \A k \in DOMAIN _event_buses :
          LET bus == heap[_event_buses[k]]
          IN  \E r \in Regions, a \in Accounts :
                 /\ bus.arn = ArnOf(bus.name, r, a)
                 /\ k = GetEventBusKey(bus.name, r)
                 /\ GetEventBusResult(_event_buses, bus.name, r).returned
                        = <<_event_buses[k]>>
    /\ GetEventBusResult(_event_buses, "default", "us-east-1").returned = <<0>>

\* C20: CreateEventBus("default", R, A) is accepted and adds an entry beside
\* the pre-seeded default bus, which stays; once added, the entry is removed
\* by no DeleteEventBus call and replaced only by another
\* CreateEventBus("default", R, ...).
C20_CreatedDefaultStays ==
    [][/\ (IsCreateStep /\ last'.name = "default")
            => /\ last'.raised = NoException
               /\ LastKey # "default"
               /\ _event_buses'["default"] = 0
               /\ <<_event_buses'[LastKey]>> = last'.event_bus
               /\ _event_buses'[LastKey] # 0
       /\ \A r \in Regions :
             LET key == GetEventBusKey("default", r)
             IN  (key \in DOMAIN _event_buses
                    /\ heap[_event_buses[key]].name = "default")
                    => /\ key \in DOMAIN _event_buses'
                       /\ _event_buses'[key] # _event_buses[key]
                            => /\ last'.op = "CreateEventBus"
                               /\ last'.name = "default"
                               /\ last'.region = r]_vars

(***************************************************************************)
(* Properties of the objects behind the registry.                          *)
(***************************************************************************)
\* the string contains a "/"
HasSlash(s) == \E i \in 1..Len(s) : SubSeq(s, i, i) = "/"

\* the bus and the rule the last call worked on, before and after the step
LastBus == last'.returned[1]
RuleBefore == heap[LastBus]._rules[last'.rule]
RuleAfter == heap'[LastBus]._rules[last'.rule]

\* C12: ExtractBusNameFromArnOrName gives "default" for an absent or empty
\* input, the input itself for a non-empty name without "/", and for an input
\* with "/" the segment after the last "/"; so the ARN composed for a name N
\* without "/" and the name N itself both resolve to N.
C12_ExtractName ==
    last.op = "ExtractEventBusName"
        => /\ (last.arg = <<>> \/ last.arg = <<"">>) => last.response = "default"
           /\ (last.arg # <<>> /\ last.arg # <<"">> /\ ~HasSlash(last.arg[1]))
                 => last.response = last.arg[1]
           /\ (last.arg # <<>> /\ HasSlash(last.arg[1]))
                 => LET s == last.arg[1]
                        n == Len(s) - Len(last.response)
                    IN  /\ ~HasSlash(last.response)
                        /\ n >= 1
                        /\ SubSeq(s, n, n) = "/"
                        /\ SubSeq(s, n + 1, Len(s)) = last.response
           /\ \A n \in Names, r \in Regions, a \in Accounts :
                 last.arg = <<ArnOf(n, r, a)>>
                    => /\ last.response = n
                       /\ ExtractEventBusName(<<n>>) = n
           /\ last.arg = <<"arn:aws:events:us-east-1:123:event-bus/my-bus">>
                 => last.response = "my-bus"

C12_Witness ==
    /\ last.op = "ExtractEventBusName"
    /\ last.arg = <<"arn:aws:events:east-1:111111111111:event-bus/bus-us">>
    /\ last.response = "bus-us"

\* C13: a rule constructed without an explicit state is ENABLED; Enable()
\* yields ENABLED and Disable() yields DISABLED whatever the state was; a call
\* on a rule already in that state changes nothing; and each call leaves name,
\* description and role_arn as they were.
C13_RuleState ==
    /\ Rule("rule").state = "ENABLED"
    /\ [][/\ (last'.op = "PutRule" /\ vars' # vars) => RuleAfter.state = "ENABLED"
          /\ (last'.op \in {"Rule.enable", "Rule.disable"} /\ vars' # vars)
               => /\ RuleAfter.state =
                        (IF last'.op = "Rule.enable" THEN "ENABLED" ELSE "DISABLED")
                  /\ RuleAfter.name = RuleBefore.name
                  /\ RuleAfter.description = RuleBefore.description
                  /\ RuleAfter.role_arn = RuleBefore.role_arn
                  /\ RuleBefore.state = RuleAfter.state => heap' = heap
                  /\ \A id \in DOMAIN heap :
                        id # LastBus => heap'[id] = heap[id]
                  /\ heap'[LastBus].name = heap[LastBus].name
                  /\ heap'[LastBus].arn = heap[LastBus].arn
                  /\ DOMAIN heap'[LastBus]._rules = DOMAIN heap[LastBus]._rules]_vars

\* a rule constructed DISABLED with a description and a role was enabled
C13_Witness ==
    /\ last.op = "Rule.enable"
    /\ LET rule == heap[last.returned[1]]._rules[last.rule]
       IN  /\ rule.state = "ENABLED"
           /\ rule.description = "a rule"
           /\ rule.role_arn # None

\* C17: EventBus.Delete() empties the rule map of the bus whatever it held,
\* changes nothing on a bus whose rule map is already empty (so a second
\* Delete() changes nothing), and leaves the name and the ARN of the bus.
C17_EventBusDelete ==
    [][(last'.op = "EventBus.delete" /\ vars' # vars)
        => /\ heap'[LastBus]._rules = <<>>
           /\ heap[LastBus]._rules = <<>> => heap' = heap
           /\ Delete(heap', LastBus) = heap'
           /\ heap'[LastBus].name = heap[LastBus].name
           /\ heap'[LastBus].arn = heap[LastBus].arn]_vars

\* Delete() was called on a bus of the registry, which stays there without rules
C17_Witness ==
    /\ last.op = "EventBus.delete"
    /\ heap[last.returned[1]]._rules = <<>>
    /\ \E k \in DOMAIN _event_buses : <<_event_buses[k]>> = last.returned

====
